---------------------------- MODULE Spec2Model ----------------------------
(***************************************************************************)
(* A model of ffmpegFE: the batch converter movieconvert.py and the        *)
(* interactive wizard ffmpegfe.py.  One run of one tool is one behaviour:  *)
(* the tool, its command line, the files in the input's directory, the     *)
(* prober's output, the operator's answer and the encoder's exit status    *)
(* are the inputs; the argument list, the exit code, the messages and the  *)
(* files removed or renamed are the results.                               *)
(*                                                                         *)
(* Python strings are TLA+ strings; TLC evaluates Len, \o and SubSeq on    *)
(* them, so the string functions below work character by character.        *)
(***************************************************************************)
EXTENDS Integers, Sequences, FiniteSets, TLC

---------------------------------------------------------------------------
(* Python string functions                                                 *)

Char(s, i) == SubSeq(s, i, i)

UpperAlpha == "ABCDEFGHIJKLMNOPQRSTUVWXYZ"
LowerAlpha == "abcdefghijklmnopqrstuvwxyz"

Letters == 1..26
UpperSet == {Char(UpperAlpha, i) : i \in Letters}
LowerSet == {Char(LowerAlpha, i) : i \in Letters}

LowerChar(c) ==
    IF c \in UpperSet
    THEN Char(LowerAlpha, CHOOSE i \in Letters : Char(UpperAlpha, i) = c)
    ELSE c

UpperChar(c) ==
    IF c \in LowerSet
    THEN Char(UpperAlpha, CHOOSE i \in Letters : Char(LowerAlpha, i) = c)
    ELSE c

RECURSIVE Lower(_)
\* str.lower()
Lower(s) == IF Len(s) = 0 THEN "" ELSE LowerChar(Char(s, 1)) \o Lower(Tail(s))

\* str.capitalize(): first character upper-cased, the rest lower-cased
Capitalize(s) == IF Len(s) = 0 THEN "" ELSE UpperChar(Char(s, 1)) \o Lower(Tail(s))

IsSpace(c) == c \in {" ", "\t", "\n", "\r"}

RECURSIVE LStrip(_)
LStrip(s) == IF Len(s) > 0 /\ IsSpace(Char(s, 1)) THEN LStrip(Tail(s)) ELSE s

RECURSIVE RStrip(_)
RStrip(s) ==
    IF Len(s) > 0 /\ IsSpace(Char(s, Len(s)))
    THEN RStrip(SubSeq(s, 1, Len(s) - 1))
    ELSE s

\* str.strip()
Strip(s) == RStrip(LStrip(s))

\* str.endswith(suffix)
EndsWith(s, suf) ==
    /\ Len(s) >= Len(suf)
    /\ SubSeq(s, Len(s) - Len(suf) + 1, Len(s)) = suf

\* str.startswith(prefix)
StartsWith(s, pre) == Len(s) >= Len(pre) /\ SubSeq(s, 1, Len(pre)) = pre

\* the Python test `sub in s`
Contains(sub, s) ==
    \E i \in 1..(Len(s) - Len(sub) + 1) : SubSeq(s, i, i + Len(sub) - 1) = sub

\* str.find(c) and str.rfind(c), one-based; 0 when c does not occur
Find(s, c) ==
    IF \E i \in 1..Len(s) : Char(s, i) = c
    THEN CHOOSE i \in 1..Len(s) :
            Char(s, i) = c /\ \A j \in 1..(i - 1) : Char(s, j) # c
    ELSE 0

RFind(s, c) ==
    IF \E i \in 1..Len(s) : Char(s, i) = c
    THEN CHOOSE i \in 1..Len(s) :
            Char(s, i) = c /\ \A j \in (i + 1)..Len(s) : Char(s, j) # c
    ELSE 0

RECURSIVE Split(_, _)
\* str.split(sep) for a one-character separator: a sequence of strings
Split(s, sep) ==
    IF Find(s, sep) = 0
    THEN <<s>>
    ELSE <<SubSeq(s, 1, Find(s, sep) - 1)>>
            \o Split(SubSeq(s, Find(s, sep) + 1, Len(s)), sep)

RECURSIVE Join(_, _)
\* sep.join(parts)
Join(sep, parts) ==
    IF Len(parts) = 0 THEN ""
    ELSE IF Len(parts) = 1 THEN parts[1]
    ELSE parts[1] \o sep \o Join(sep, Tail(parts))

IsDigit(c) == c \in {"0", "1", "2", "3", "4", "5", "6", "7", "8", "9"}

DigitVal(c) == CHOOSE d \in 0..9 : ToString(d) = c

RECURSIVE DigitsVal(_)
DigitsVal(s) ==
    IF Len(s) = 0 THEN 0
    ELSE 10 * DigitsVal(SubSeq(s, 1, Len(s) - 1)) + DigitVal(Char(s, Len(s)))

AllDigits(s) == Len(s) > 0 /\ \A i \in 1..Len(s) : IsDigit(Char(s, i))

\* int(value) of a string: surrounding blanks and one sign are accepted;
\* anything else raises ValueError (ok = FALSE)
PyInt(value) ==
    LET t == Strip(value)
        signed == Len(t) > 0 /\ Char(t, 1) \in {"+", "-"}
        digits == IF signed THEN Tail(t) ELSE t
    IN  IF AllDigits(digits)
        THEN [ok |-> TRUE,
              val |-> IF signed /\ Char(t, 1) = "-"
                      THEN 0 - DigitsVal(digits) ELSE DigitsVal(digits)]
        ELSE [ok |-> FALSE, val |-> 0]

---------------------------------------------------------------------------
(* os.path functions (posixpath)                                           *)

\* os.path.splitext: the extension starts at the last dot of the last
\* path component, unless only dots precede it in that component
SplitExt(p) ==
    LET sep == RFind(p, "/")
        dot == RFind(p, ".")
    IN  IF dot > sep /\ \E k \in (sep + 1)..(dot - 1) : Char(p, k) # "."
        THEN <<SubSeq(p, 1, dot - 1), SubSeq(p, dot, Len(p))>>
        ELSE <<p, "">>

\* os.path.basename
Basename(p) == SubSeq(p, RFind(p, "/") + 1, Len(p))

RECURSIVE RStripSlash(_)
RStripSlash(s) ==
    IF Len(s) > 0 /\ Char(s, Len(s)) = "/"
    THEN RStripSlash(SubSeq(s, 1, Len(s) - 1))
    ELSE s

\* os.path.dirname
Dirname(p) ==
    LET head == SubSeq(p, 1, RFind(p, "/"))
    IN  IF RStripSlash(head) = "" THEN head ELSE RStripSlash(head)

\* os.path.join(a, b)
PathJoin(a, b) ==
    IF StartsWith(b, "/") THEN b
    ELSE IF a = "" \/ EndsWith(a, "/") THEN a \o b
    ELSE a \o "/" \o b

---------------------------------------------------------------------------
(* Python values whose type varies at run time (an int from the prober's   *)
(* JSON, a str default, or a missing dictionary key)                       *)

IntV(k) == [ty |-> "int", s |-> "", n |-> k]
StrV(t) == [ty |-> "str", s |-> t, n |-> 0]
Absent == [ty |-> "absent", s |-> "", n |-> 0]

\* dict.get(key, default)
Get(v, default) == IF v.ty = "absent" THEN default ELSE v

\* truth value of a Python int or str
Truthy(v) == IF v.ty = "int" THEN v.n # 0 ELSE v.ty = "str" /\ v.s # ""

\* str(v), as an f-string renders it
PyStr(v) == IF v.ty = "int" THEN ToString(v.n) ELSE v.s

---------------------------------------------------------------------------
(* movieconvert.py: option parsing and validation                          *)

CrfMin == 0
CrfMax == 51

\* the command line gives no --crf-value
NoCrf == "<none>"

\* crf_range(value): the parsed integer, or the error argparse reports
crf_range(value) ==
    LET iv == PyInt(value)
    IN  IF ~iv.ok THEN [ok |-> FALSE, val |-> 0]
        ELSE IF iv.val < CrfMin \/ iv.val > CrfMax THEN [ok |-> FALSE, val |-> iv.val]
        ELSE [ok |-> TRUE, val |-> iv.val]

\* DefaultCrf with one default mistyped
DefaultCrf_Typo(video_codec) ==
    IF video_codec = "avc" THEN [set |-> TRUE, val |-> 20]
    ELSE IF video_codec = "hevc" THEN [set |-> TRUE, val |-> 240]
    ELSE [set |-> FALSE, val |-> 0]

\* args.crf_value when --crf-value is absent; copy leaves it None
DefaultCrf(video_codec) ==
    IF video_codec = "avc" THEN [set |-> TRUE, val |-> 20]
    ELSE IF video_codec = "hevc" THEN [set |-> TRUE, val |-> 24]
    ELSE [set |-> FALSE, val |-> 0]

\* the range test main() repeats on a given value
CrfOutOfRange(v) == v < CrfMin \/ v > CrfMax

---------------------------------------------------------------------------
(* movieconvert.py: output name and subtitle-file scan                     *)

\* os.path.isfile on the modelled directory
IsFile(path, files) == path \in files

RECURSIVE NumberedOutput(_, _, _, _)
\* the while loop of lines 67-70, entered with output_file occupied
NumberedOutput(base, container, counter, files) ==
    LET candidate == base \o "." \o ToString(counter) \o "." \o container
    IN  IF IsFile(candidate, files)
        THEN NumberedOutput(base, container, counter + 1, files)
        ELSE [output_file |-> candidate, counter |-> counter + 1]

\* lines 62-70: the output file name and the final value of counter
OutputName(input_file, container, files) ==
    LET base == SplitExt(input_file)[1]
        first == base \o "." \o container
    IN  IF IsFile(first, files)
        THEN NumberedOutput(base, container, 1, files)
        ELSE [output_file |-> first, counter |-> 1]

\* os.listdir(directory): the names of the files in it, in no fixed order
DirNames(directory, files) == {Basename(p) : p \in {q \in files : Dirname(q) = directory}}

RECURSIVE Orderings(_)
\* the sequences that list every element of S once
Orderings(S) ==
    IF S = {} THEN {<<>>}
    ELSE UNION {{<<x>> \o l : l \in Orderings(S \ {x})} : x \in S}

\* line 90: a directory entry is taken for a subtitle file of the input
IsSubtitleFor(filename, base_name) ==
    EndsWith(Lower(filename), ".srt") /\ Contains(base_name, filename)

RECURSIVE ParseParts(_, _)
\* lines 93-107: language, flags and title words from the dot-separated parts
ParseParts(parts, acc) ==
    IF Len(parts) = 0 THEN acc
    ELSE LET part == Head(parts)
             next == IF part \in {"en", "eng"}
                         THEN [acc EXCEPT !.lang = "eng",
                                          !.title_parts = @ \o <<"English">>]
                     ELSE IF part = "forced"
                         THEN [acc EXCEPT !.forced = 1,
                                          !.title_parts = @ \o <<"Forced">>]
                     ELSE IF part = "sdh"
                         THEN [acc EXCEPT !.sdh = 1,
                                          !.title_parts = @ \o <<"SDH">>]
                     ELSE acc
         IN  ParseParts(Tail(parts), next)

\* lines 91-122: the descriptor of one subtitle file
SubfileDescriptor(filename, base_name, directory, i) ==
    LET parts == Split(Lower(SubSeq(filename, Len(base_name) + 1, Len(filename))), ".")
        r == ParseParts(parts, [lang |-> "eng", forced |-> 0, sdh |-> 0,
                                title_parts |-> <<>>])
    IN  [index |-> i,
         codec |-> "srt",
         language |-> r.lang,
         default |-> 0,
         forced |-> r.forced,
         sdh |-> r.sdh,
         title |-> IF Len(r.title_parts) > 0 THEN Join(" ", r.title_parts) ELSE "English",
         filename |-> PathJoin(directory, filename)]

RECURSIVE ScanListing(_, _, _, _)
\* lines 88-123: the loop over the directory listing
ScanListing(listing, base_name, directory, found) ==
    IF Len(listing) = 0 THEN found
    ELSE IF IsSubtitleFor(Head(listing), base_name)
        THEN ScanListing(Tail(listing), base_name, directory,
                 Append(found, SubfileDescriptor(Head(listing), base_name,
                                                 directory, Len(found) + 1)))
        ELSE ScanListing(Tail(listing), base_name, directory, found)

\* lines 84-123: subfiles_in for one listing order
ScanSubfiles(input_file, listing) ==
    LET directory == IF Dirname(input_file) = "" THEN "." ELSE Dirname(input_file)
        base_name == SplitExt(Basename(input_file))[1]
    IN  ScanListing(listing, base_name, directory, <<>>)

---------------------------------------------------------------------------
(* movieconvert.py: stream classification                                  *)

\* lines 139-152: the values derived from one prober record
StreamInfo(s) ==
    LET codec_type == Capitalize(Get(s.codec_type, StrV("Unknown")).s)
        lang0 == Get(s.language, StrV("eng")).s
        language == IF lang0 = "und" THEN "eng" ELSE lang0
        title == Get(s.title, StrV("")).s
        forced == Get(s.disp_forced, StrV("0"))
        sdh == Get(s.disp_hearing_impaired, StrV("0"))
        newtitle_parts ==
            <<IF language = "eng" THEN "English" ELSE language>>
            \o (IF forced = StrV("1") \/ Contains("forced", Lower(title))
                THEN <<"Forced">> ELSE <<>>)
            \o (IF sdh = StrV("1") \/ Contains("sdh", Lower(title))
                THEN <<"SDH">> ELSE <<>>)
    IN  [codec_type |-> codec_type,
         codec_name |-> Get(s.codec_name, StrV("Unknown")).s,
         resolution |-> PyStr(Get(s.width, StrV("N/A"))) \o "x"
                            \o PyStr(Get(s.height, StrV("N/A"))),
         language |-> language,
         title |-> title,
         default |-> Get(s.disp_default, StrV("0")),
         forced |-> forced,
         sdh |-> sdh,
         newtitle |-> Join(" ", newtitle_parts)]

\* lines 154-197: one prober record added to the output buckets
ClassifyStream(s, a, acc) ==
    LET d == StreamInfo(s)
    IN  IF d.codec_type = "Video"
        THEN [acc EXCEPT !.video = Append(@,
                 [index |-> s.index,
                  codec |-> IF a.video_codec # "copy" THEN a.video_codec
                                                      ELSE d.codec_name,
                  resolution |-> IF a.rescale_to_720 THEN "-2x720" ELSE d.resolution,
                  title |-> "N/A"])]
        ELSE IF d.codec_type = "Audio"
        THEN IF acc.audio_in + 1 = 1 \/ d.language = "eng"
             THEN [acc EXCEPT !.audio_in = @ + 1,
                              !.audio = Append(@,
                 [index |-> s.index,
                  codec |-> IF a.audio_codec # "copy" THEN a.audio_codec
                                                      ELSE d.codec_name,
                  language |-> IF d.language # "N/A" THEN d.language ELSE "eng",
                  channels |-> Get(s.channels, StrV("N/A")),
                  title |-> d.newtitle])]
             ELSE [acc EXCEPT !.audio_in = @ + 1]
        ELSE IF d.codec_type = "Subtitle"
        THEN IF d.language = "eng" \/ d.language = "N/A"
             THEN [acc EXCEPT !.subtitle = Append(@,
                 [index |-> s.index,
                  codec |-> d.codec_name,
                  language |-> d.language,
                  default |-> d.default,
                  forced |-> IF Contains("forced", Lower(d.title)) THEN IntV(1)
                                                                   ELSE d.forced,
                  sdh |-> IF Contains("sdh", Lower(d.title)) THEN IntV(1) ELSE d.sdh,
                  title |-> d.newtitle])]
             ELSE acc
        ELSE acc

RECURSIVE ClassifyFrom(_, _, _)
ClassifyFrom(streams, a, acc) ==
    IF Len(streams) = 0 THEN acc
    ELSE ClassifyFrom(Tail(streams), a, ClassifyStream(Head(streams), a, acc))

NoStreams == [audio_in |-> 0, video |-> <<>>, audio |-> <<>>, subtitle |-> <<>>]

\* lines 134-197: video_streams_out, audio_streams_out, subtitle_streams_out
\* (audio_in counts audio_streams_in; the other input lists are only printed)
SelectStreams(streams, a) == ClassifyFrom(streams, a, NoStreams)

---------------------------------------------------------------------------
(* movieconvert.py: the encoder's argument list                            *)

RECURSIVE Flatten(_)
\* the argument groups appended one after another
Flatten(groups) == IF Len(groups) = 0 THEN <<>> ELSE Head(groups) \o Flatten(Tail(groups))

\* lines 245-247: one -i per subtitle file
SubfileInputs(a, subfiles) ==
    IF a.subtitle
    THEN Flatten([k \in 1..Len(subfiles) |-> <<"-f", "srt", "-i", subfiles[k].filename>>])
    ELSE <<>>

\* lines 252-268: the -map arguments
MapArgs(a, subfiles, sel) ==
    Flatten([k \in 1..Len(sel.video) |-> <<"-map", "0:" \o ToString(sel.video[k].index)>>])
    \o Flatten([k \in 1..Len(sel.audio) |-> <<"-map", "0:" \o ToString(sel.audio[k].index)>>])
    \o (IF a.subtitle
        THEN Flatten([k \in 1..Len(sel.subtitle) |->
                        <<"-map", "0:" \o ToString(sel.subtitle[k].index)>>])
             \o Flatten([k \in 1..Len(subfiles) |->
                        <<"-map", ToString(subfiles[k].index) \o ":0">>])
        ELSE <<>>)

\* lines 270-276: video codec and CRF
VideoSettings(a, crf) ==
    IF a.video_codec = "copy" THEN <<"-c:v", "copy">>
    ELSE IF a.video_codec = "avc"
        THEN <<"-c:v", "libx264", "-profile:v", "high", "-preset", "slow",
               "-crf", ToString(crf.val)>>
    ELSE IF a.video_codec = "hevc"
        THEN <<"-c:v", "libx265", "-preset", "slow", "-crf", ToString(crf.val),
               "-tag:v", "hvc1">>
    ELSE <<>>

\* lines 278-297: scaling, audio codec, downmix, subtitle codec
OtherSettings(a) ==
    (IF a.rescale_to_720 THEN <<"-vf", "scale=-2:720">> ELSE <<>>)
    \o (IF a.audio_codec \in {"copy", "aac", "ac3", "eac3"}
        THEN <<"-c:a", a.audio_codec>> ELSE <<>>)
    \o (IF a.audio_to_stereo THEN <<"-ac", "2">> ELSE <<>>)
    \o (IF a.subtitle THEN <<"-c:s", "mov_text">> ELSE <<>>)

\* lines 299-304: language and title of each audio stream
AudioMetadata(sel) ==
    Flatten([k \in 1..Len(sel.audio) |->
        LET stream == sel.audio[k]
            spec == "-metadata:s:a:" \o ToString(stream.index - 1)
        IN  (IF stream.language # ""
             THEN <<spec, "language=" \o stream.language>> ELSE <<>>)
            \o (IF stream.title # ""
                THEN <<spec, "title=" \o stream.title>> ELSE <<>>)])

\* lines 310-321 and 327-338: metadata and disposition of subtitle number i
SubtitleEntry(i, language, title, forced, sdh) ==
    LET disposition_str == (IF forced THEN "+forced" ELSE "")
                           \o (IF sdh THEN "+hearing_impaired" ELSE "")
    IN  (IF language # ""
         THEN <<"-metadata:s:s:" \o ToString(i), "language=" \o language>> ELSE <<>>)
        \o (IF title # "" /\ title # "N/A"
            THEN <<"-metadata:s:s:" \o ToString(i), "title=" \o title>> ELSE <<>>)
        \o (IF disposition_str # ""
            THEN <<"-disposition:s:" \o ToString(i), disposition_str>> ELSE <<>>)

\* lines 306-338: subtitle streams first, then subtitle files
SubtitleMetadata(a, subfiles, sel) ==
    IF a.subtitle
    THEN Flatten([k \in 1..Len(sel.subtitle) |->
            LET stream == sel.subtitle[k]
            IN  SubtitleEntry(k - 1, stream.language, stream.title,
                              Truthy(stream.forced), Truthy(stream.sdh))])
         \o Flatten([k \in 1..Len(subfiles) |->
            LET file == subfiles[k]
            IN  SubtitleEntry(Len(sel.subtitle) + k - 1, file.language, file.title,
                              file.forced # 0, file.sdh # 0)])
    ELSE <<>>

\* lines 242-341: the whole argument list
BuildCommand(a, crf, output, subfiles, sel) ==
    <<"ffmpeg", "-i", a.input>>
    \o SubfileInputs(a, subfiles)
    \o <<"-map_metadata", "-1", "-map_chapters", "-1">>
    \o MapArgs(a, subfiles, sel)
    \o VideoSettings(a, crf)
    \o OtherSettings(a)
    \o AudioMetadata(sel)
    \o SubtitleMetadata(a, subfiles, sel)
    \o <<output>>

---------------------------------------------------------------------------
(* ffmpegfe.py: the pure functions                                         *)

\* get_output_filename(file_path)
get_output_filename(file_path) ==
    LET se == SplitExt(file_path)
    IN  IF Lower(se[2]) = ".mp4" THEN se[1] \o ".1.mp4" ELSE se[1] \o ".mp4"

IsLowerLetter(c) == c \in LowerSet

\* the pattern of line 23 after group 1:
\* (?:\.([a-z]{2}))?(?:\.(forced))?(?:\.(sdh))?\.srt$
\* the tail of the pattern matched against `rest`: the groups, or no match
MatchTail(rest) ==
    LET hasLang(l) ==
            /\ Len(l) = 3 /\ Char(l, 1) = "."
            /\ IsLowerLetter(Char(l, 2)) /\ IsLowerLetter(Char(l, 3))
        shapes == {<<nl, f, h>> \in {0, 3} \X {"", ".forced"} \X {"", ".sdh"} :
                      /\ Len(rest) = nl + Len(f) + Len(h) + 4
                      /\ (nl = 3 => hasLang(SubSeq(rest, 1, 3)))
                      /\ SubSeq(rest, nl + 1, Len(rest)) = f \o h \o ".srt"}
    IN  IF shapes = {} THEN [matched |-> FALSE, lang |-> "", forced |-> 0, sdh |-> 0]
        ELSE LET sh == CHOOSE x \in shapes : TRUE
             IN  [matched |-> TRUE,
                  lang |-> IF sh[1] = 3 THEN SubSeq(rest, 2, 3) ELSE "",
                  forced |-> IF sh[2] # "" THEN 1 ELSE 0,
                  sdh |-> IF sh[3] # "" THEN 1 ELSE 0]

\* re.match of line 23 on a lower-cased name: group 1 is lazy, so the
\* shortest non-empty prefix after which the tail matches is taken
MatchSrtName(name) ==
    LET ks == {k \in 1..Len(name) :
                  /\ \A j \in 1..k : Char(name, j) # "\n"
                  /\ MatchTail(SubSeq(name, k + 1, Len(name))).matched}
    IN  IF ks = {} THEN [matched |-> FALSE, lang |-> "", forced |-> 0, sdh |-> 0]
        ELSE MatchTail(SubSeq(name,
                 (CHOOSE k \in ks : \A m \in ks : k <= m) + 1, Len(name)))

RECURSIVE SrtFromListing(_, _, _, _)
\* lines 21-28: the loop over the directory listing
SrtFromListing(listing, base, directory, found) ==
    IF Len(listing) = 0 THEN found
    ELSE LET filename == Head(listing)
             m == MatchSrtName(Lower(filename))
         IN  IF EndsWith(Lower(filename), ".srt") /\ Contains(base, filename) /\ m.matched
             THEN SrtFromListing(Tail(listing), base, directory,
                      Append(found, [path |-> PathJoin(directory, filename),
                                     lang |-> IF m.lang # "" THEN m.lang ELSE "en",
                                     forced |-> m.forced,
                                     sdh |-> m.sdh]))
             ELSE SrtFromListing(Tail(listing), base, directory, found)

\* get_srt_filenames(file_path) for one listing order
get_srt_filenames(file_path, listing) ==
    LET base == SplitExt(Basename(file_path))[1]
        found == SrtFromListing(listing, base, Dirname(file_path), <<>>)
    IN  IF Len(found) > 0 THEN found
        ELSE <<[path |-> "No srt files present", lang |-> "en", forced |-> 0, sdh |-> 0]>>

RECURSIVE FeClassify(_, _)
\* lines 43-56: the three lists get_streams builds
FeClassify(streams, acc) ==
    IF Len(streams) = 0 THEN acc
    ELSE LET s == Head(streams)
             codec_type == Capitalize(Get(s.codec_type, StrV("Unknown")).s)
             codec_name == Get(s.codec_name, StrV("Unknown")).s
             language == Get(s.language, StrV("N/A")).s
             title == Get(s.title, StrV("N/A")).s
             forced == Get(s.tag_forced, StrV("N/A")).s
             next ==
                IF codec_type = "Video"
                THEN [acc EXCEPT !.video = Append(@,
                        [index |-> s.index, codec_name |-> codec_name,
                         resolution |-> PyStr(Get(s.width, StrV("N/A"))) \o "x"
                                           \o PyStr(Get(s.height, StrV("N/A")))])]
                ELSE IF codec_type = "Audio"
                THEN [acc EXCEPT !.audio = Append(@,
                        [index |-> s.index, codec_name |-> codec_name,
                         language |-> language, title |-> title])]
                ELSE IF codec_type = "Subtitle"
                THEN [acc EXCEPT !.subtitle = Append(@,
                        [index |-> s.index, language |-> language,
                         forced |-> forced, title |-> title])]
                ELSE acc
         IN  FeClassify(Tail(streams), next)

\* get_streams(file_path): a pair on unusable prober output (line 39),
\* else the triple of lists (line 58); n is the length of the tuple
get_streams(probe_out) ==
    IF probe_out.kind # "ok"
    THEN [n |-> 2, video |-> <<>>, audio |-> <<>>, subtitle |-> <<>>,
          message |-> "Error: Could not retrieve stream information."]
    ELSE [n |-> 3, message |-> ""] @@
         FeClassify(probe_out.streams, [video |-> <<>>, audio |-> <<>>, subtitle |-> <<>>])

---------------------------------------------------------------------------
(* The inputs of a run                                                     *)

\* the most subtitle files the input's directory holds
MaxSrt == 2
MaxFiles == 4

InputPool == {"d/mv.mkv"}
FeInputPool == {"d/mv.mkv", "d/mv.mp4"}
CrfPool == {NoCrf, "0", "51", "52", "-1", "5x"}

\* video codec, rescale, audio codec and downmix vary together
CodecPool == {<<"hevc", FALSE, "eac3", FALSE>>, <<"avc", TRUE, "copy", TRUE>>,
              <<"copy", FALSE, "aac", TRUE>>}

ArgsPool ==
    {[input |-> i, container |-> f, video_codec |-> co[1], rescale_to_720 |-> co[2],
      crf |-> c, audio_codec |-> co[3], audio_to_stereo |-> co[4],
      subtitle |-> s, delete |-> d, no_prompt |-> y] :
        i \in InputPool, f \in {"mp4", "mkv"}, co \in CodecPool,
        c \in CrfPool, s \in BOOLEAN, d \in BOOLEAN, y \in BOOLEAN}

\* the wizard takes one argument and has no options
FeArgs(i) ==
    [input |-> i, container |-> "mp4", video_codec |-> "hevc", rescale_to_720 |-> FALSE,
     crf |-> NoCrf, audio_codec |-> "eac3", audio_to_stereo |-> FALSE,
     subtitle |-> TRUE, delete |-> FALSE, no_prompt |-> FALSE]

OtherPool == {"d/mv.mkv", "d/mv.mp4", "d/mv.1.mp4"}
SrtPool == {"d/mv.fr.srt", "d/mv.en.Forced.srt", "d/xmv2.srt"}

\* the directories a run may start in
DirPool ==
    {d \in {o \cup t : o \in SUBSET OtherPool,
                       t \in {u \in SUBSET SrtPool : Cardinality(u) <= MaxSrt}} :
        Cardinality(d) <= MaxFiles}

\* one record of the prober's "streams" list
Stream(index, codec_type, codec_name) ==
    [index |-> index, codec_type |-> StrV(codec_type), codec_name |-> StrV(codec_name),
     width |-> Absent, height |-> Absent, channels |-> Absent,
     language |-> Absent, title |-> Absent, tag_forced |-> Absent,
     disp_default |-> Absent, disp_forced |-> Absent, disp_hearing_impaired |-> Absent]

VideoStream(index) ==
    [Stream(index, "video", "h264") EXCEPT !.width = IntV(1920), !.height = IntV(1080),
        !.disp_default = IntV(1), !.disp_forced = IntV(0),
        !.disp_hearing_impaired = IntV(0)]

AudioStream(index, language) ==
    [Stream(index, "audio", "ac3") EXCEPT !.channels = IntV(6), !.language = language,
        !.disp_default = IntV(0), !.disp_forced = IntV(0),
        !.disp_hearing_impaired = IntV(0)]

SubtitleStream(index, language, title, forced, sdh) ==
    [Stream(index, "subtitle", "subrip") EXCEPT !.language = language, !.title = title,
        !.disp_default = IntV(0), !.disp_forced = forced,
        !.disp_hearing_impaired = sdh]

StreamsPool ==
    {<<VideoStream(0), AudioStream(1, StrV("eng")),
       SubtitleStream(2, StrV("eng"), StrV("English [Forced]"), IntV(0), IntV(0))>>,
     <<AudioStream(0, Absent), VideoStream(1), AudioStream(2, StrV("jpn")),
       AudioStream(3, StrV("eng")),
       SubtitleStream(4, StrV("fre"), Absent, IntV(1), IntV(0)),
       SubtitleStream(5, StrV("und"), Absent, IntV(0), IntV(1)),
       [Stream(6, "subtitle", "subrip") EXCEPT !.language = StrV("eng")]>>}

\* what the prober prints: no JSON, JSON without "streams", or a stream list
ProbePool ==
    {[kind |-> "notjson", streams |-> <<>>], [kind |-> "nostreams", streams |-> <<>>]}
    \cup {[kind |-> "ok", streams |-> st] : st \in StreamsPool}

NoProbe == [kind |-> "none", streams |-> <<>>]

\* the line the operator types; Eof is a closed standard input
NotAsked == "<not asked>"
Eof == "<eof>"
AnswerPool == {"y", " Y ", "n", "yes", Eof}

---------------------------------------------------------------------------
(* State                                                                   *)

VARIABLES
    tool,           \* "batch" (movieconvert.py) or "fe" (ffmpegfe.py)
    argc,           \* len(sys.argv)
    args,           \* the parsed command line
    fs0,            \* the files present when the run starts
    fs,             \* the files present now
    pc,             \* the position of main()
    crf_value,      \* args.crf_value: [set, val]; set = FALSE is None
    output_file,
    counter,
    subfiles_in,
    probe,          \* the prober's output
    sel,            \* video_streams_out, audio_streams_out, subtitle_streams_out
    cmd,            \* the encoder's argument list
    answer,         \* the line read from standard input
    encoder_rc,     \* the encoder's exit status; -1 before it has run
    exit_code,      \* the tool's exit code; -1 while it runs
    out,            \* the messages printed
    deleted,        \* paths passed to os.remove
    renamed,        \* pairs passed to os.rename
    fe_srt,         \* the wizard's srt_files
    fe_ret          \* what the wizard's get_streams returned

vars == <<tool, argc, args, fs0, fs, pc, crf_value, output_file, counter, subfiles_in,
          probe, sel, cmd, answer, encoder_rc, exit_code, out, deleted, renamed,
          fe_srt, fe_ret>>

batchVars == <<crf_value, output_file, counter, subfiles_in, sel, cmd, answer,
               encoder_rc, deleted, renamed>>
feVars == <<fe_srt, fe_ret>>
inputVars == <<tool, argc, args, fs0>>

NoFeRet == [n |-> 0, message |-> "", video |-> <<>>, audio |-> <<>>, subtitle |-> <<>>]

InitCommon ==
    /\ fs0 = fs
    /\ pc = "start"
    /\ crf_value = [set |-> FALSE, val |-> 0]
    /\ output_file = ""
    /\ counter = 0
    /\ subfiles_in = <<>>
    /\ probe = NoProbe
    /\ sel = NoStreams
    /\ cmd = <<>>
    /\ answer = NotAsked
    /\ encoder_rc = -1
    /\ exit_code = -1
    /\ out = <<>>
    /\ deleted = {}
    /\ renamed = <<>>
    /\ fe_srt = <<>>
    /\ fe_ret = NoFeRet

Init ==
    /\ \/ tool = "batch" /\ argc = 2 /\ args \in ArgsPool
       \/ tool = "fe" /\ argc \in {1, 2} /\ args \in {FeArgs(i) : i \in FeInputPool}
    /\ fs \in DirPool
    /\ InitCommon

\* sys.exit(code), or the end of main()
Exit(code, message) ==
    /\ pc' = "done"
    /\ exit_code' = code
    /\ out' = IF message = "" THEN out ELSE Append(out, message)

---------------------------------------------------------------------------
(* movieconvert.py: the steps of main()                                    *)

\* lines 19-44: parse_args(). argparse turns the ArgumentTypeError or
\* ValueError of a type function into its own error: usage on stderr and
\* exit status 2
ParseArgs ==
    /\ tool = "batch" /\ pc = "start"
    /\ IF args.crf = NoCrf
       THEN /\ crf_value' = [set |-> FALSE, val |-> 0]
            /\ pc' = "parsed"
            /\ UNCHANGED <<exit_code, out>>
       ELSE IF crf_range(args.crf).ok
       THEN /\ crf_value' = [set |-> TRUE, val |-> crf_range(args.crf).val]
            /\ pc' = "parsed"
            /\ UNCHANGED <<exit_code, out>>
       ELSE /\ Exit(2, "error: argument -c/--crf-value")
            /\ UNCHANGED crf_value
    /\ UNCHANGED <<inputVars, fs, probe, feVars, output_file, counter, subfiles_in,
                   sel, cmd, answer, encoder_rc, deleted, renamed>>

\* lines 46-60: the CRF default or range test, then the input file test
Validate ==
    /\ tool = "batch" /\ pc = "parsed"
    /\ IF crf_value.set /\ CrfOutOfRange(crf_value.val)
       THEN /\ Exit(1, "Error: CRF value must be between 0 and 51.")
            /\ UNCHANGED crf_value
       ELSE /\ crf_value' = IF crf_value.set THEN crf_value
                                             ELSE DefaultCrf(args.video_codec)
            /\ IF ~IsFile(args.input, fs)
               THEN Exit(1, "Error: Cannot read file")
               ELSE pc' = "validated" /\ UNCHANGED <<exit_code, out>>
    /\ UNCHANGED <<inputVars, fs, probe, feVars, output_file, counter, subfiles_in,
                   sel, cmd, answer, encoder_rc, deleted, renamed>>

\* lines 62-123: the output name, then the scan of the directory in the
\* order os.listdir happens to return (lines 72-82 set a variable that is
\* never read)
Scan ==
    /\ tool = "batch" /\ pc = "validated"
    /\ LET o == OutputName(args.input, args.container, fs)
       IN  output_file' = o.output_file /\ counter' = o.counter
    /\ \E listing \in Orderings(DirNames(
              IF Dirname(args.input) = "" THEN "." ELSE Dirname(args.input), fs)) :
          subfiles_in' = ScanSubfiles(args.input, listing)
    /\ pc' = "scanned"
    /\ UNCHANGED <<inputVars, fs, probe, feVars, crf_value, sel, cmd, answer,
                   encoder_rc, deleted, renamed, exit_code, out>>

\* lines 126-197: run the prober and sort its streams; on output that is
\* not JSON or has no "streams" main() returns a value nobody reads
Probe ==
    /\ tool = "batch" /\ pc = "scanned"
    /\ \E p \in ProbePool :
          /\ probe' = p
          /\ IF p.kind # "ok"
             THEN Exit(0, "") /\ UNCHANGED sel
             ELSE /\ sel' = SelectStreams(p.streams, args)
                  /\ pc' = "probed"
                  /\ UNCHANGED <<exit_code, out>>
    /\ UNCHANGED <<inputVars, fs, feVars, crf_value, output_file, counter, subfiles_in,
                   cmd, answer, encoder_rc, deleted, renamed>>

\* lines 199-349: print the streams, build and print the command
Build ==
    /\ tool = "batch" /\ pc = "probed"
    /\ cmd' = BuildCommand(args, crf_value, output_file, subfiles_in, sel)
    /\ out' = IF args.delete
              THEN Append(out, "The input file(s) will be deleted after conversion.")
              ELSE out
    /\ pc' = "built"
    /\ UNCHANGED <<inputVars, fs, probe, feVars, crf_value, output_file, counter,
                   subfiles_in, sel, answer, encoder_rc, deleted, renamed, exit_code>>

\* Proceeds testing for a refusal instead of a consent
Proceeds_NotNo(line) == Lower(Strip(line)) # "n"

\* lines 353-354: the answer that lets the run go on
Proceeds(line) == Lower(Strip(line)) = "y"

\* lines 351-356: the confirmation; input() on a closed stdin raises EOFError,
\* which nothing catches
Confirm ==
    /\ tool = "batch" /\ pc = "built"
    /\ IF args.no_prompt
       THEN pc' = "confirmed" /\ UNCHANGED <<answer, exit_code, out>>
       ELSE \E line \in AnswerPool :
               /\ answer' = line
               /\ IF line = Eof THEN Exit(1, "Traceback: EOFError")
                  ELSE IF ~Proceeds(line) THEN Exit(0, "Aborted.")
                  ELSE pc' = "confirmed" /\ UNCHANGED <<exit_code, out>>
    /\ UNCHANGED <<inputVars, fs, probe, feVars, crf_value, output_file, counter,
                   subfiles_in, sel, cmd, encoder_rc, deleted, renamed>>

\* EncoderFailed as if run() were called without check=True
EncoderFailed_Unchecked(rc) == FALSE

\* subprocess.run(cmd, check=True) raises CalledProcessError
EncoderFailed(rc) == rc # 0

\* lines 358-364: run the encoder, which writes the output file (a failed
\* run may leave a partial one)
RunEncoder ==
    /\ tool = "batch" /\ pc = "confirmed"
    /\ \E rc \in {0, 1}, written \in BOOLEAN :
          /\ rc = 0 => written
          /\ encoder_rc' = rc
          /\ fs' = IF written THEN fs \cup {output_file} ELSE fs
          /\ IF EncoderFailed(rc)
             THEN Exit(1, "Error: ffmpeg command failed with error")
             ELSE pc' = "ran" /\ UNCHANGED <<exit_code, out>>
    /\ UNCHANGED <<inputVars, probe, feVars, crf_value, output_file, counter,
                   subfiles_in, sel, cmd, answer, deleted, renamed>>

\* lines 374-379: the rename of a numbered output, as <<from, to>>, or <<>>
RenameOf(a, output, n) ==
    LET base == SplitExt(a.input)[1]
        o == SplitExt(output)
    IN  IF EndsWith(o[1], "." \o ToString(n - 1)) /\ o[2] = "." \o a.container
        THEN <<<<output, base \o "." \o a.container>>>>
        ELSE <<>>

\* lines 380-385: the subtitle files removed
SubfilesToDelete(a, subfiles, files) ==
    {subfiles[k].filename : k \in {j \in 1..Len(subfiles) :
        subfiles[j].filename # "" /\ IsFile(subfiles[j].filename, files)}}

\* lines 367-385: what the delete option does to the files
CleanupEffect(a, files, output, n, subfiles) ==
    LET gone1 == IF a.input # "" /\ IsFile(a.input, files) THEN {a.input} ELSE {}
        files1 == files \ gone1
        ren == RenameOf(a, output, n)
        files2 == IF Len(ren) = 0 THEN files1
                  ELSE (files1 \ {ren[1][1]}) \cup {ren[1][2]}
        gone2 == SubfilesToDelete(a, subfiles, files2)
    IN  [fs |-> files2 \ gone2, deleted |-> gone1 \cup gone2, renamed |-> ren]

\* lines 367-385 and the end of main()
Cleanup ==
    /\ tool = "batch" /\ pc = "ran"
    /\ IF args.delete
       THEN LET e == CleanupEffect(args, fs, output_file, counter, subfiles_in)
            IN  /\ fs' = e.fs
                /\ deleted' = e.deleted
                /\ renamed' = e.renamed
                /\ Exit(0, "Deleting:")
       ELSE /\ Exit(0, "")
            /\ UNCHANGED <<fs, deleted, renamed>>
    /\ UNCHANGED <<inputVars, probe, feVars, crf_value, output_file, counter,
                   subfiles_in, sel, cmd, answer, encoder_rc>>

---------------------------------------------------------------------------
(* ffmpegfe.py: main() and the handlers                                    *)

\* lines 104-110: the usage test, the output name and the subtitle files
FeStart ==
    /\ tool = "fe" /\ pc = "start"
    /\ IF argc # 2
       THEN Exit(1, "Usage: python script.py <video_file>")
            /\ UNCHANGED <<output_file, fe_srt>>
       ELSE /\ output_file' = get_output_filename(args.input)
            /\ \E listing \in Orderings(DirNames(Dirname(args.input), fs)) :
                  fe_srt' = get_srt_filenames(args.input, listing)
            /\ pc' = "srt"
            /\ UNCHANGED <<exit_code, out>>
    /\ UNCHANGED <<inputVars, fs, probe, fe_ret, crf_value, counter, subfiles_in,
                   sel, cmd, answer, encoder_rc, deleted, renamed>>

\* unpacking the result of get_streams into three names (line 111)
UnpacksToThree(ret) == ret.n = 3

\* lines 111-154: get_streams, the unpacking, then the screen is built
FeGetStreams ==
    /\ tool = "fe" /\ pc = "srt"
    /\ \E p \in ProbePool :
          /\ probe' = p
          /\ fe_ret' = get_streams(p)
          /\ IF UnpacksToThree(get_streams(p))
             THEN pc' = "menu" /\ UNCHANGED <<exit_code, out>>
             ELSE Exit(1, "Traceback: ValueError: not enough values to unpack")
    /\ UNCHANGED <<inputVars, fs, fe_srt, batchVars>>

\* show_stream_dialog, show_codec_dialog, show_subtitle_dialog
FeShowDialog ==
    /\ tool = "fe" /\ pc = "menu"
    /\ \E d \in {"streams", "codecs", "subtitles"} : pc' = "dialog " \o d
    /\ UNCHANGED <<inputVars, fs, probe, feVars, batchVars, exit_code, out>>

\* close_dialog
FeCloseDialog ==
    /\ tool = "fe" /\ pc \in {"dialog streams", "dialog codecs", "dialog subtitles"}
    /\ pc' = "menu"
    /\ UNCHANGED <<inputVars, fs, probe, feVars, batchVars, exit_code, out>>

\* exit_program and the 'q' key: ExitMainLoop ends loop.run() and main()
FeQuit ==
    /\ tool = "fe"
    /\ pc \in {"menu", "dialog streams", "dialog codecs", "dialog subtitles"}
    /\ Exit(0, "")
    /\ UNCHANGED <<inputVars, fs, probe, feVars, batchVars>>

---------------------------------------------------------------------------

Next ==
    \/ ParseArgs
    \/ Validate
    \/ Scan
    \/ Probe
    \/ Build
    \/ Confirm
    \/ RunEncoder
    \/ Cleanup
    \/ FeStart
    \/ FeGetStreams
    \/ FeShowDialog
    \/ FeCloseDialog
    \/ FeQuit

Spec == Init /\ [][Next]_vars

---------------------------------------------------------------------------
(* Properties                                                              *)

\* the -i inputs of an argument list
EncoderInputs(c) == {c[i + 1] : i \in {j \in 1..(Len(c) - 1) : c[j] = "-i"}}

\* the values that follow -crf in an argument list
CrfValues(c) == {c[i + 1] : i \in {j \in 1..(Len(c) - 1) : c[j] = "-crf"}}

\* a --crf-value was given and is no integer of 0..51
InvalidCrfGiven == args.crf # NoCrf /\ args.crf \notin {ToString(k) : k \in 0..51}

Printed(message) == \E i \in 1..Len(out) : out[i] = message

\* the line is a single y or Y with blanks around it
IsYes(line) ==
    \E i \in 1..Len(line) :
        /\ Char(line, i) \in {"y", "Y"}
        /\ \A j \in (1..Len(line)) \ {i} : Char(line, j) \in {" ", "\t"}

\* C1: in the batch tool no file is deleted or renamed, and no file present at
\* the start is missing, unless the encoder has exited with status zero and
\* the delete option is set
C1_RemovalOnlyAfterSuccess ==
    tool = "batch" =>
        ((deleted # {} \/ renamed # <<>> \/ ~(fs0 \subseteq fs))
            => (encoder_rc = 0 /\ args.delete /\ pc = "done"))

\* C1 witness: a run with the delete option whose encoder failed has ended,
\* with subtitle files found and every file still in place
C1_Witness ==
    /\ tool = "batch" /\ pc = "done" /\ args.delete
    /\ encoder_rc = 1 /\ Len(subfiles_in) > 0
    /\ deleted = {} /\ renamed = <<>> /\ fs0 \subseteq fs

\* C2: a batch run that ends on an invalid CRF, an unreadable input or an
\* encoder failure exits with code 1; one that ends by a successful
\* conversion or a declined confirmation exits with code 0
C2_ExitCodes ==
    (tool = "batch" /\ pc = "done") =>
        /\ InvalidCrfGiven => exit_code = 1
        /\ (~InvalidCrfGiven /\ args.input \notin fs0) => exit_code = 1
        /\ encoder_rc > 0 => exit_code = 1
        /\ encoder_rc = 0 => exit_code = 0
        /\ Printed("Aborted.") => exit_code = 0

\* C3: a CRF value outside 0..51 ends the batch run before the prober or the
\* encoder is invoked and before any file changes, and every value after
\* -crf in an assembled argument list is an integer of 0..51
C3_CrfInRange ==
    tool = "batch" =>
        /\ InvalidCrfGiven =>
              /\ probe = NoProbe /\ encoder_rc = -1 /\ cmd = <<>>
              /\ fs = fs0 /\ deleted = {} /\ renamed = <<>>
        /\ CrfValues(cmd) \subseteq {ToString(k) : k \in 0..51}

\* C3 witness: a run given an out-of-range CRF has ended with nothing invoked
C3_Witness ==
    /\ tool = "batch" /\ pc = "done" /\ args.crf = "52"
    /\ probe = NoProbe /\ encoder_rc = -1 /\ fs = fs0

\* C4: the encoder has run only if no-prompt is set and no line was read, or
\* the one line read is y after stripping and lower-casing; any other line
\* read ends the run with "Aborted." and the encoder not started
C4_ConfirmedBeforeEncoding ==
    tool = "batch" =>
        /\ args.no_prompt => answer = NotAsked
        /\ (encoder_rc # -1 \/ pc \in {"confirmed", "ran"}) =>
              (args.no_prompt \/ IsYes(answer))
        /\ (answer \notin {NotAsked, Eof} /\ ~IsYes(answer)) =>
              /\ pc = "done" /\ encoder_rc = -1
              /\ Len(out) > 0 /\ out[Len(out)] = "Aborted."

\* C4 witness: the operator typed " Y " and the encoder has run
C4_Witness ==
    /\ tool = "batch" /\ ~args.no_prompt /\ answer = " Y " /\ encoder_rc = 0

\* C5: after a successful conversion with the delete option, the files
\* deleted are exactly the source file and the subtitle files that were -i
\* inputs of the encoder
C5_DeletedAreConsumed ==
    (tool = "batch" /\ pc = "done" /\ encoder_rc = 0 /\ args.delete) =>
        deleted = {args.input} \cup EncoderInputs(cmd)

\* C6: when the prober's output is not JSON or has no streams entry, the batch
\* tool reports an error and ends without running the encoder, and the
\* wizard ends without an unhandled exception
C6_ProbeFailureHandled ==
    (probe.kind \in {"notjson", "nostreams"} /\ pc = "done") =>
        /\ tool = "batch" =>
              /\ encoder_rc = -1
              /\ \E i \in 1..Len(out) : StartsWith(out[i], "Error")
        /\ tool = "fe" => ~\E i \in 1..Len(out) : StartsWith(out[i], "Traceback")

\* the name follows the convention for the input: the input's base name,
\* then dot-separated tags, then .srt, in the input's directory
FollowsConvention(path) ==
    LET name == Basename(path)
        base_name == SplitExt(Basename(args.input))[1]
        rest == SubSeq(name, Len(base_name) + 1, Len(name))
    IN  /\ Dirname(path) = Dirname(args.input)
        /\ StartsWith(name, base_name)
        /\ StartsWith(rest, ".")
        /\ EndsWith(Lower(rest), ".srt")

\* C7: every subtitle file the batch tool gives to the encoder or deletes
\* follows the naming convention for the input
C7_ConsumedFollowConvention ==
    tool = "batch" =>
        \A f \in (EncoderInputs(cmd) \cup deleted) \ {args.input} : FollowsConvention(f)

\* the names <base>[.<language>][.forced][.sdh].srt with what each must yield
NameForms ==
    {[name |-> SplitExt(Basename(args.input))[1] \o l[1] \o f \o h \o ".srt",
      languages |-> l[2],
      forced |-> IF f = "" THEN 0 ELSE 1,
      sdh |-> IF h = "" THEN 0 ELSE 1] :
        l \in {<<"", {"en", "eng"}>>, <<".en", {"en", "eng"}>>,
               <<".eng", {"en", "eng"}>>, <<".fr", {"fr", "fre", "fra"}>>},
        f \in {"", ".forced"}, h \in {"", ".sdh"}}

\* C8: a subtitle file named <base>[.<language>][.forced][.sdh].srt, in any
\* case, gets forced and sdh from its tags and the language its tag names,
\* English without one, in the batch tool's scan and in get_srt_filenames
C8_NamesClassified ==
    \A form \in NameForms :
        /\ \A k \in 1..Len(subfiles_in) :
              Lower(Basename(subfiles_in[k].filename)) = form.name =>
                  /\ subfiles_in[k].forced = form.forced
                  /\ subfiles_in[k].sdh = form.sdh
                  /\ subfiles_in[k].language \in form.languages
        /\ \A k \in 1..Len(fe_srt) :
              Lower(Basename(fe_srt[k].path)) = form.name =>
                  /\ fe_srt[k].forced = form.forced
                  /\ fe_srt[k].sdh = form.sdh
                  /\ fe_srt[k].lang \in form.languages

\* C9: the argument list is the one any order of the directory listing gives
C9_ListingOrderIrrelevant ==
    (tool = "batch" /\ cmd # <<>>) =>
        \A listing \in Orderings(DirNames(Dirname(args.input), fs0)) :
            BuildCommand(args, crf_value, output_file,
                         ScanSubfiles(args.input, listing), sel) = cmd

\* C10: with no --crf-value the encoder gets -crf 28 for hevc and -crf 23 for
\* avc, as the help text says, and no -crf for copy
C10_DefaultCrfAsDocumented ==
    (tool = "batch" /\ args.crf = NoCrf /\ cmd # <<>>) =>
        CrfValues(cmd) = IF args.video_codec = "hevc" THEN {"28"}
                         ELSE IF args.video_codec = "avc" THEN {"23"}
                         ELSE {}


\* <base>.<container>, or <base>.<k>.<container> for k >= 1
CandidateOutput(k) ==
    LET base == SplitExt(args.input)[1]
    IN  IF k = 0 THEN base \o "." \o args.container
        ELSE base \o "." \o ToString(k) \o "." \o args.container

\* the output path is the first candidate that did not exist
OutputIsFirstFree ==
    \E k \in 0..Cardinality(fs0) :
        /\ output_file = CandidateOutput(k)
        /\ output_file \notin fs0
        /\ \A j \in 0..(k - 1) : CandidateOutput(j) \in fs0

\* no rename lands on a file that was there at the start and still is
NoRenameOntoExisting ==
    \A i \in 1..Len(renamed) : renamed[i][2] \notin (fs0 \ {args.input})

\* C11: a batch run never overwrites or destroys a file that existed before
\* it, other than the source and the subtitle files given to the encoder:
\* the encoder's output path is <base>.<container> if free and otherwise the
\* numbered name with the smallest free k >= 1, never the input path; the
\* rename of a numbered output happens only onto a path not held by a file
\* that existed before the run and still exists
C11_NoExistingFileLost ==
    (tool = "batch" /\ cmd # <<>>) =>
        /\ cmd[Len(cmd)] = output_file
        /\ OutputIsFirstFree
        /\ output_file # args.input
        /\ NoRenameOntoExisting
        /\ (fs0 \ fs) \subseteq ({args.input} \cup EncoderInputs(cmd))


\* the values that follow each occurrence of flag, in order
RECURSIVE ValuesAfter(_, _)
ValuesAfter(c, flag) ==
    IF Len(c) < 2 THEN <<>>
    ELSE IF Head(c) = flag THEN <<c[2]>> \o ValuesAfter(Tail(Tail(c)), flag)
    ELSE ValuesAfter(Tail(c), flag)

\* language and title of the subtitles in -map order: embedded, then files
MappedSubtitles ==
    IF args.subtitle
    THEN [k \in 1..(Len(sel.subtitle) + Len(subfiles_in)) |->
            IF k <= Len(sel.subtitle)
            THEN [language |-> sel.subtitle[k].language, title |-> sel.subtitle[k].title]
            ELSE [language |-> subfiles_in[k - Len(sel.subtitle)].language,
                  title |-> subfiles_in[k - Len(sel.subtitle)].title]]
    ELSE <<>>

\* every -metadata:s:a:N names the position of the audio stream it describes
AudioSpecifiersAddressed ==
    \A j \in 1..(Len(cmd) - 1) :
        StartsWith(cmd[j], "-metadata:s:a:") =>
            \E k \in 1..Len(sel.audio) :
                /\ cmd[j] = "-metadata:s:a:" \o ToString(k - 1)
                /\ cmd[j + 1] \in {"language=" \o sel.audio[k].language,
                                   "title=" \o sel.audio[k].title}

\* every -metadata:s:s:N and -disposition:s:N names the position of its
\* subtitle in -map order
SubtitleSpecifiersAddressed ==
    \A j \in 1..(Len(cmd) - 1) :
        /\ StartsWith(cmd[j], "-metadata:s:s:") =>
              \E k \in 1..Len(MappedSubtitles) :
                  /\ cmd[j] = "-metadata:s:s:" \o ToString(k - 1)
                  /\ cmd[j + 1] \in {"language=" \o MappedSubtitles[k].language,
                                     "title=" \o MappedSubtitles[k].title}
        /\ StartsWith(cmd[j], "-disposition:s:") =>
              \E k \in 1..Len(MappedSubtitles) :
                  /\ cmd[j] = "-disposition:s:" \o ToString(k - 1)
                  /\ j > 2 /\ cmd[j - 2] = "-metadata:s:s:" \o ToString(k - 1)

\* the m-th -map of a subtitle file is "m:0" and input m is that file
FileMapsAddressed ==
    LET inputs == ValuesAfter(cmd, "-i")
        maps == ValuesAfter(cmd, "-map")
        fileMaps == SelectSeq(maps, LAMBDA v : EndsWith(v, ":0") /\ ~StartsWith(v, "0:"))
    IN  /\ Len(fileMaps) = (IF args.subtitle THEN Len(subfiles_in) ELSE 0)
        /\ \A m \in 1..Len(fileMaps) :
              /\ fileMaps[m] = ToString(m) \o ":0"
              /\ Len(inputs) > m
              /\ inputs[m + 1] = subfiles_in[m].filename

\* C12: in every argument list of the batch tool, the N of -metadata:s:a:N is
\* the zero-based position, among the mapped audio streams, of the stream
\* whose language and title it sets; the N of -metadata:s:s:N and
\* -disposition:s:N is the zero-based position of that subtitle in -map order
\* (embedded streams, then files); each -map K:0 of a subtitle file refers to
\* the K-th -i input, which is that file
C12_SpecifiersAddressTheirStream ==
    (tool = "batch" /\ cmd # <<>>) =>
        /\ AudioSpecifiersAddressed
        /\ SubtitleSpecifiersAddressed
        /\ FileMapsAddressed


\* the prober's record of the stream with this index
ProbedStream(index) ==
    CHOOSE s \in {probe.streams[i] : i \in 1..Len(probe.streams)} : s.index = index

\* a dot-separated part of the file's name is the tag, in any case
NameHasTag(path, tag) ==
    LET parts == Split(Lower(Basename(path)), ".")
    IN  \E i \in 1..Len(parts) : parts[i] = tag

\* subtitle k of the -map order was flagged by its source: the stream's
\* disposition is 1 or its title has the word, or the file's name has the tag
SourceFlagged(k, disp, word) ==
    IF k <= Len(sel.subtitle)
    THEN LET s == ProbedStream(sel.subtitle[k].index)
         IN  \/ s[disp] = IntV(1)
             \/ (s.title # Absent /\ Contains(word, Lower(s.title.s)))
    ELSE NameHasTag(subfiles_in[k - Len(sel.subtitle)].filename, word)

\* the values given to -disposition for subtitle k of the -map order
DispositionsOf(k) ==
    {cmd[j + 1] : j \in {i \in 1..(Len(cmd) - 1) :
                            cmd[i] = "-disposition:s:" \o ToString(k - 1)}}

\* C13: in every argument list of the batch tool a subtitle gets +forced in
\* its -disposition only if its source was flagged forced (the stream's forced
\* disposition, "forced" in its title, or the forced tag of the file name)
\* and +hearing_impaired only if its source was flagged SDH in the same way;
\* a subtitle with neither flag, also a stream whose prober record has no
\* disposition entry, gets no -disposition argument
C13_DispositionOnlyIfFlagged ==
    (tool = "batch" /\ cmd # <<>>) =>
        \A k \in 1..Len(MappedSubtitles) :
            LET forced == SourceFlagged(k, "disp_forced", "forced")
                sdh == SourceFlagged(k, "disp_hearing_impaired", "sdh")
            IN  /\ \A d \in DispositionsOf(k) :
                      /\ Contains("+forced", d) => forced
                      /\ Contains("+hearing_impaired", d) => sdh
                /\ (~forced /\ ~sdh) => DispositionsOf(k) = {}

===========================================================================
